---- MODULE Spec2Model ----
(***************************************************************************)
(* Model of the Shopify app-proxy route handlers of audacem-blog:          *)
(*   src/app/api/shopify-proxy/[[...path]]/route.ts   (the catch-all route)*)
(*   src/app/api/shopify-proxy/route.ts               (the path_prefix     *)
(*                                                     route)              *)
(* A JavaScript string is a sequence of one-character strings.  Markup     *)
(* that a template literal writes itself is kept as one multi-character    *)
(* token, so a character that came from the content store can be told from *)
(* a tag the renderer generated.                                           *)
(***************************************************************************)
EXTENDS Integers, Sequences, FiniteSets, TLC

VARIABLES
    route,      \* which route file serves the request: "catchall" | "prefix"
    query,      \* request.nextUrl.searchParams: a sequence of <<key, value>>
    path,       \* the catch-all route's params.path: undefined or segments
    pc,         \* the handler's position
    slug,       \* the local `slug` of GET
    mode,       \* which fetch-and-render function GET called
    fetches,    \* number of client.fetch calls issued by the request
    failure,    \* the step that failed, "none" when no step failed
    fetched,    \* what client.fetch resolved to
    resp,       \* the NextResponse the handler returned
    vres,       \* verifyShopifySignature's trace on `query`
    vprev,      \* the trace before the last reordering of `query`
    vswap,      \* what the last reordering exchanged
    rin,        \* the record handed to a renderer
    rout,       \* the renderer's result
    rprev       \* the renderer's result before the last insertion

vars == <<route, query, path, pc, slug, mode, fetches, failure, fetched, resp,
          vres, vprev, vswap, rin, rout, rprev>>

handlerVars == <<route, path, pc, slug, mode, fetches, failure, fetched, resp>>
verifyVars == <<vres, vprev, vswap>>
renderVars == <<rin, rout, rprev>>

---------------------------------------------------------------------------
(* Bounds of the model.                                                    *)

\* Most non-signature parameters of a query checked by the verifier.
MaxParams == 2
\* Most blocks in a post body handed to renderBody.
MaxBlocks == 2
\* Longest content-store text handed to escapeHTML.
MaxTextLen == 2

---------------------------------------------------------------------------
(* JavaScript values.                                                      *)

\* `undefined` / `null`: a value no string is equal to.
undefined == <<"undefined">>

\* !v for a string or absent value: absent and '' are falsy.
Falsy(v) == v = undefined \/ v = <<>>

RECURSIVE Concat(_)
\* Array.prototype.join('') on an array of strings.
Concat(ss) == IF ss = <<>> THEN <<>> ELSE Head(ss) \o Concat(Tail(ss))

RECURSIVE Join(_, _)
\* Array.prototype.join(sep).
Join(ss, sep) ==
    IF ss = <<>> THEN <<>>
    ELSE IF Len(ss) = 1 THEN ss[1]
    ELSE ss[1] \o sep \o Join(Tail(ss), sep)

\* The characters the model's strings are written with; Code is a
\* character's code unit.
Chars == <<"0", "1", "2", "3", "4", "5", "6", "7", "8", "9",
           "a", "b", "c", "d", "e", "f", "g", "h", "i", "j", "k", "l", "m",
           "n", "o", "p", "q", "r", "s", "t", "u", "v", "w", "x", "y", "z",
           "A", "B", "C", "D", "E", "F",
           "=", "&", "/", "_", "-", "<", ">", "\"", ";">>

Code(c) == CHOOSE i \in 1..Len(Chars) : Chars[i] = c

---------------------------------------------------------------------------
(* Signature Verifier: verifyShopifySignature.                             *)

\* process.env.SHOPIFY_CLIENT_SECRET, set in the deployment (the source
\* asserts it non-null).
SHOPIFY_CLIENT_SECRET == <<"k", "e", "y">>

SignatureKey == <<"s", "i", "g", "n", "a", "t", "u", "r", "e">>

\* URLSearchParams.get(name): the first value of `name`, null when absent.
Get(q, name) ==
    IF \E i \in 1..Len(q) : q[i][1] = name
    THEN q[CHOOSE i \in 1..Len(q) :
               q[i][1] = name /\ \A j \in 1..(i - 1) : q[j][1] # name][2]
    ELSE undefined

\* Delete as it would be had params.delete('signature') been left out.
Delete_nothing(q, name) == q

\* URLSearchParams.delete(name): every entry of `name` is removed.
Delete(q, name) == SelectSeq(q, LAMBDA e : e[1] # name)

\* Collation of a character: letters sort by letter first (primary weight),
\* lower case before upper case (tertiary weight); punctuation before
\* digits before letters.
Collation == <<"_", "-", "/", "=", "&", ";", "\"", "<", ">",
               "0", "1", "2", "3", "4", "5", "6", "7", "8", "9",
               "a", "b", "c", "d", "e", "f", "g", "h", "i", "j", "k", "l", "m",
               "n", "o", "p", "q", "r", "s", "t", "u", "v", "w", "x", "y", "z">>

Upper == <<"A", "B", "C", "D", "E", "F">>
Lower == <<"a", "b", "c", "d", "e", "f">>

IsUpper(c) == \E i \in 1..Len(Upper) : Upper[i] = c

ToLower(c) ==
    IF IsUpper(c) THEN Lower[CHOOSE i \in 1..Len(Upper) : Upper[i] = c] ELSE c

Primary(c) == CHOOSE i \in 1..Len(Collation) : Collation[i] = ToLower(c)

Tertiary(c) == IF IsUpper(c) THEN 1 ELSE 0

RECURSIVE CompareWeights(_, _)
\* Lexicographic comparison of two sequences of weights; a proper prefix
\* sorts first.
CompareWeights(a, b) ==
    IF a = <<>> /\ b = <<>> THEN 0
    ELSE IF a = <<>> THEN -1
    ELSE IF b = <<>> THEN 1
    ELSE IF a[1] < b[1] THEN -1
    ELSE IF a[1] > b[1] THEN 1
    ELSE CompareWeights(Tail(a), Tail(b))

\* String.prototype.localeCompare: negative, zero or positive.
LocaleCompare(a, b) ==
    LET p == CompareWeights([i \in 1..Len(a) |-> Primary(a[i])],
                            [i \in 1..Len(b) |-> Primary(b[i])])
    IN IF p # 0 THEN p
       ELSE CompareWeights([i \in 1..Len(a) |-> Tertiary(a[i])],
                           [i \in 1..Len(b) |-> Tertiary(b[i])])

\* The comparator of the sort: ([a], [b]) => a.localeCompare(b).
CompareEntries(x, y) == LocaleCompare(x[1], y[1])

\* SortEntries as it would be had the .sort(...) call been left out.
SortEntries_unsorted(es) == es

RECURSIVE SortEntries(_)
\* Array.prototype.sort with that comparator.  The sort is stable: an entry
\* goes after every entry already placed that does not sort after it.
SortEntries(es) ==
    IF es = <<>> THEN <<>>
    ELSE LET n == Len(es)
             done == SortEntries(SubSeq(es, 1, n - 1))
             e == es[n]
             k == Cardinality({i \in 1..Len(done) : CompareEntries(done[i], e) <= 0})
         IN SubSeq(done, 1, k) \o <<e>> \o SubSeq(done, k + 1, Len(done))

\* .map(([key, value]) => `${key}=${value}`)
PairText(e) == e[1] \o <<"=">> \o e[2]

\* The canonical string: signature removed, sorted by key, joined with '&'.
SortedParams(q) ==
    LET params == Delete(q, SignatureKey)
        sorted == SortEntries(params)
    IN Join([i \in 1..Len(sorted) |-> PairText(sorted[i])], <<"&">>)

HexDigits == <<"0", "1", "2", "3", "4", "5", "6", "7", "8", "9",
               "a", "b", "c", "d", "e", "f">>

RECURSIVE Absorb(_, _)
\* The running state of the keyed hash after the characters of `msg`.
Absorb(h, msg) ==
    IF msg = <<>> THEN h
    ELSE Absorb((h * 31 + Code(msg[1])) % 256, Tail(msg))

\* crypto.createHmac('sha256', key).update(msg).digest('hex'): a keyed digest
\* written in lower-case hexadecimal.  The digest is shortened to one byte.
Hmac(key, msg) ==
    LET h == Absorb(Absorb(7, key), msg)
    IN <<HexDigits[(h \div 16) + 1], HexDigits[(h % 16) + 1]>>

\* verifyShopifySignature(query), with the canonical string it hashed.
VerifyTrace(q) ==
    LET signature == Get(q, SignatureKey)
    IN IF Falsy(signature)
       THEN [canon |-> undefined, result |-> FALSE]
       ELSE LET sortedParams == SortedParams(q)
                hash == Hmac(SHOPIFY_CLIENT_SECRET, sortedParams)
            IN [canon |-> sortedParams, result |-> (hash = signature)]

\* verifyShopifySignature as it would be with the comparison left out.
verifyShopifySignature_anySignature(q) == ~Falsy(Get(q, SignatureKey))

\* verifyShopifySignature(query).
verifyShopifySignature(q) == VerifyTrace(q).result

---------------------------------------------------------------------------
(* Block Renderer and Page Assembler of the catch-all route.               *)

\* A renderer's result: the markup, or the fact that it threw.
Returned(html) == [ok |-> TRUE, html |-> html]
Thrown == [ok |-> FALSE, html |-> <<>>]

RECURSIVE ReplaceAll(_, _, _)
\* String.prototype.replace(/c/g, by).
ReplaceAll(str, c, by) ==
    IF str = <<>> THEN <<>>
    ELSE (IF str[1] = c THEN by ELSE <<str[1]>>) \o ReplaceAll(Tail(str), c, by)

Amp == <<"&", "a", "m", "p", ";">>
Lt == <<"&", "l", "t", ";">>
Gt == <<"&", "g", "t", ";">>
Quot == <<"&", "q", "u", "o", "t", ";">>

\* escapeHTML as it would be with '&' replaced last instead of first.
escapeHTML_ampersandLast(str) ==
    IF Falsy(str) THEN <<>>
    ELSE ReplaceAll(ReplaceAll(ReplaceAll(ReplaceAll(str,
             "<", Lt), ">", Gt), "\"", Quot), "&", Amp)

\* escapeHTML of [[...path]]/route.ts: '' for a falsy argument.
escapeHTML(str) ==
    IF Falsy(str) THEN <<>>
    ELSE ReplaceAll(ReplaceAll(ReplaceAll(ReplaceAll(str,
             "&", Amp), "<", Lt), ">", Gt), "\"", Quot)

\* toHTML of @portabletext/to-html on a rich-text value: the library's
\* own markup around the value, which it escapes itself.
toHTML(content) == <<"<p>">> \o content \o <<"</p>">>

\* The markup of one FAQ item.
RenderFaqItem(item) ==
    <<"<div class='faq-item'><strong>">> \o escapeHTML(item.question)
    \o <<"</strong><p>">> \o escapeHTML(item.answer) \o <<"</p></div>">>

\* RenderBlock as it would be with a default arm that writes a placeholder.
RenderBlock_placeholderDefault(block) ==
    IF block.type \in {"wysiwygBlock", "quickAnswerBlock"}
    THEN Returned(<<"<section><h2>">> \o escapeHTML(block.title) \o <<"</h2>">>
                  \o toHTML(block.content) \o <<"</section>">>)
    ELSE IF block.type = "faqBlock"
    THEN IF block.items = <<>> THEN Thrown
         ELSE Returned(<<"<section><h2>">> \o escapeHTML(block.title) \o <<"</h2>">>
                  \o Concat([i \in 1..Len(block.items[1]) |->
                                RenderFaqItem(block.items[1][i])])
                  \o <<"</section>">>)
    ELSE IF block.type = "ctaBlock"
    THEN Returned(<<"<section><h2>">> \o escapeHTML(block.title) \o <<"</h2><p>">>
                  \o escapeHTML(block.description) \o <<"</p><p><strong>">>
                  \o escapeHTML(block.btnText) \o <<"</strong></p></section>">>)
    ELSE Returned(<<"<section><h2>">> \o escapeHTML(block.title)
                  \o <<"</h2></section>">>)

\* The switch on block._type inside renderBody.  block.items is <<>> when
\* the store sent no items (block.items.map then throws) and <<array>>
\* otherwise.
RenderBlock(block) ==
    IF block.type \in {"wysiwygBlock", "quickAnswerBlock"}
    THEN Returned(<<"<section><h2>">> \o escapeHTML(block.title) \o <<"</h2>">>
                  \o toHTML(block.content) \o <<"</section>">>)
    ELSE IF block.type = "faqBlock"
    THEN IF block.items = <<>> THEN Thrown
         ELSE Returned(<<"<section><h2>">> \o escapeHTML(block.title) \o <<"</h2>">>
                  \o Concat([i \in 1..Len(block.items[1]) |->
                                RenderFaqItem(block.items[1][i])])
                  \o <<"</section>">>)
    ELSE IF block.type = "ctaBlock"
    THEN Returned(<<"<section><h2>">> \o escapeHTML(block.title) \o <<"</h2><p>">>
                  \o escapeHTML(block.description) \o <<"</p><p><strong>">>
                  \o escapeHTML(block.btnText) \o <<"</strong></p></section>">>)
    ELSE Returned(<<>>)

\* renderBody(body): body is <<>> when the post has none and <<array>>
\* otherwise.  A block that throws makes the whole call throw.
renderBody(body) ==
    IF body = <<>> THEN Returned(<<>>)
    ELSE LET parts == [i \in 1..Len(body[1]) |-> RenderBlock(body[1][i])]
         IN IF \E i \in 1..Len(parts) : ~parts[i].ok THEN Thrown
            ELSE Returned(Concat([i \in 1..Len(parts) |-> parts[i].html]))

\* new Date(publishedAt).toLocaleDateString('fr-FR', {year, month, day}).
toLocaleDateString(publishedAt) ==
    IF publishedAt = <<"2024-01-15">> THEN <<"15 janvier 2024">>
    ELSE <<"Invalid Date">>

\* fetchAndRenderPost after its query resolved to `post`: post is <<>> when
\* the store had no record and <<record>> otherwise.  White space between
\* tags is left out and the accented letters of the fixed French words are
\* written without accent.
RenderPost(post) ==
    IF post = <<>> THEN Thrown
    ELSE LET p == post[1]
             bodyHTML == renderBody(p.body)
             publishedDate == IF Falsy(p.publishedAt) THEN <<>>
                              ELSE toLocaleDateString(p.publishedAt)
             authorNames ==
                 IF p.authors = <<>> THEN <<>>
                 ELSE Join([i \in 1..Len(p.authors[1]) |->
                               escapeHTML(p.authors[1][i].fullName)], <<", ">>)
         IN IF ~bodyHTML.ok THEN Thrown
            ELSE Returned(
                <<"<!DOCTYPE html><html lang='fr'><head><title>">>
                \o escapeHTML(p.title)
                \o <<"</title><style>post</style></head><body><article><h1>">>
                \o escapeHTML(p.title)
                \o <<"</h1><div class='meta'>">>
                \o (IF publishedDate # <<>>
                    THEN <<"Publie le ">> \o publishedDate ELSE <<>>)
                \o (IF authorNames # <<>>
                    THEN <<" - Par ">> \o authorNames ELSE <<>>)
                \o <<"</div>">>
                \o (IF ~Falsy(p.mainPhotoUrl)
                    THEN <<"<img src='">> \o p.mainPhotoUrl \o <<"' alt='">>
                         \o escapeHTML(IF Falsy(p.mainPhotoAlt)
                                       THEN p.title ELSE p.mainPhotoAlt)
                         \o <<"'>">>
                    ELSE <<>>)
                \o <<"<div class='content'>">>
                \o bodyHTML.html
                \o <<"</div></article></body></html>">>)

\* The markup of one author card.
RenderAuthorCard(author) ==
    <<"<div class='author-card'>">>
    \o (IF ~Falsy(author.photoUrl)
        THEN <<"<img src='">> \o author.photoUrl \o <<"' alt='">>
             \o escapeHTML(author.fullName) \o <<"'>">>
        ELSE <<>>)
    \o <<"<h2>">> \o escapeHTML(author.fullName) \o <<"</h2></div>">>

\* fetchAndRenderAuthorList after its query resolved to `authors`: <<>> when
\* the store sent nothing and <<array>> otherwise.
RenderAuthorList(authors) ==
    IF authors = <<>> \/ Len(authors[1]) = 0 THEN Thrown
    ELSE Returned(
        <<"<!DOCTYPE html><html lang='fr'><head><title>Nos auteurs</title><style>authors</style></head><body><h1>Nos auteurs</h1><div class='authors-grid'>">>
        \o Concat([i \in 1..Len(authors[1]) |-> RenderAuthorCard(authors[1][i])])
        \o <<"</div></body></html>">>)

---------------------------------------------------------------------------
(* Renderer of the path_prefix route.                                      *)

\* escapeHTML of route.ts: no guard, so str.replace throws on undefined.
escapeHTMLPrefix(str) ==
    ReplaceAll(ReplaceAll(ReplaceAll(ReplaceAll(str,
        "&", Amp), "<", Lt), ">", Gt), "\"", Quot)

\* fetchAndRenderPost of route.ts after its query resolved to `post`.
RenderPostPrefix(post) ==
    IF post = <<>> THEN Thrown
    ELSE LET p == post[1]
             bodyHTML == IF Falsy(p.body) THEN <<>> ELSE toHTML(p.body)
             publishedDate == IF Falsy(p.publishedAt) THEN <<>>
                              ELSE toLocaleDateString(p.publishedAt)
         IN IF p.title = undefined THEN Thrown
            ELSE Returned(
                <<"<!DOCTYPE html><html lang='fr'><head><title>">>
                \o escapeHTMLPrefix(p.title)
                \o <<"</title><style>post</style></head><body><article><h1>">>
                \o escapeHTMLPrefix(p.title)
                \o <<"</h1><div class='meta'>">>
                \o (IF publishedDate # <<>>
                    THEN <<"Publie le ">> \o publishedDate ELSE <<>>)
                \o (IF ~Falsy(p.authorName)
                    THEN <<" - Par ">> \o escapeHTMLPrefix(p.authorName) ELSE <<>>)
                \o <<"</div>">>
                \o (IF ~Falsy(p.mainImageUrl)
                    THEN <<"<img src='">> \o p.mainImageUrl \o <<"' alt='">>
                         \o escapeHTMLPrefix(p.title) \o <<"'>">>
                    ELSE <<>>)
                \o <<"<div class='content'>">>
                \o bodyHTML
                \o <<"</div></article></body></html>">>)

---------------------------------------------------------------------------
(* Route Handler: GET of both routes.                                      *)

\* new NextResponse(body, {status, headers}); a string body without a
\* Content-Type header is sent as plain text.
Response(status, body, contentType, cacheControl) ==
    [status |-> status, body |-> body,
     contentType |-> contentType, cacheControl |-> cacheControl]

\* The handler has returned nothing yet.
NoResponse == Response(0, <<>>, "", "")

UnauthorizedResponse ==
    Response(401, <<"Unauthorized">>, "text/plain;charset=UTF-8", "")

NotFoundResponse ==
    Response(404, <<"Content not found">>, "text/plain;charset=UTF-8", "")

\* OkResponse as it would be with the Cache-Control header left out.
OkResponse_noCacheControl(html) == Response(200, html, "application/liquid", "")

\* The response of the success path of GET.
OkResponse(html) ==
    Response(200, html, "application/liquid", "public, max-age=300")

\* What the framework answers when GET itself rejects.
UncaughtResponse ==
    Response(500, <<"Internal Server Error">>, "text/plain;charset=UTF-8", "")

\* What the try block of GET returns for a renderer's result.
TryResponse(r) == IF r.ok THEN OkResponse(r.html) ELSE NotFoundResponse

Liste == <<"l", "i", "s", "t", "e">>

\* The catch-all GET up to `await params`.
GET_Begin ==
    /\ pc = "received" /\ route = "catchall"
    /\ IF ~verifyShopifySignature(query)
       THEN /\ resp' = UnauthorizedResponse
            /\ pc' = "done"
       ELSE /\ resp' = resp
            /\ pc' = "awaitParams"
    /\ UNCHANGED <<route, query, path, slug, mode, fetches, failure, fetched,
                   verifyVars, renderVars>>

\* `params` resolves: the slug is joined from the segments, the renderer is
\* chosen and its query is sent.
GET_ParamsResolved ==
    /\ pc = "awaitParams"
    /\ LET joined == IF path = <<>> THEN undefined ELSE Join(path[1], <<"/">>)
           s == IF Falsy(joined) THEN <<>> ELSE joined
       IN /\ slug' = s
          /\ mode' = IF Falsy(s) \/ s = Liste THEN "list" ELSE "single"
    /\ fetches' = fetches + 1
    /\ pc' = "awaitFetch"
    /\ UNCHANGED <<route, query, path, failure, fetched, resp,
                   verifyVars, renderVars>>

\* `params` rejects: the await stands before the try block, so GET rejects.
GET_ParamsRejected ==
    /\ pc = "awaitParams"
    /\ failure' = "params"
    /\ resp' = UncaughtResponse
    /\ pc' = "done"
    /\ UNCHANGED <<route, query, path, slug, mode, fetches, fetched,
                   verifyVars, renderVars>>

PathPrefixKey == <<"p", "a", "t", "h", "_", "p", "r", "e", "f", "i", "x">>

\* pathPrefix.replace(/^\//, '')
StripLeadingSlash(str) ==
    IF str # <<>> /\ str[1] = "/" THEN Tail(str) ELSE str

\* The path_prefix GET up to the query of its fetchAndRenderPost.
GETPrefix_Begin ==
    /\ pc = "received" /\ route = "prefix"
    /\ IF ~verifyShopifySignature(query)
       THEN /\ resp' = UnauthorizedResponse
            /\ pc' = "done"
            /\ UNCHANGED <<slug, mode, fetches>>
       ELSE /\ LET got == Get(query, PathPrefixKey)
                   pathPrefix == IF Falsy(got) THEN <<>> ELSE got
               IN slug' = StripLeadingSlash(pathPrefix)
            /\ mode' = "single"
            /\ fetches' = fetches + 1
            /\ resp' = resp
            /\ pc' = "awaitFetch"
    /\ UNCHANGED <<route, query, path, failure, fetched, verifyVars, renderVars>>

\* client.fetch rejects: the catch block answers.
Fetch_Throws ==
    /\ pc = "awaitFetch"
    /\ failure' = "fetch"
    /\ resp' = NotFoundResponse
    /\ pc' = "done"
    /\ UNCHANGED <<route, query, path, slug, mode, fetches, fetched,
                   verifyVars, renderVars>>

---------------------------------------------------------------------------
(* The verifier on its own: queries drawn from bounded sets, verified, and *)
(* verified again after two neighbouring parameters change places.         *)

\* The verifier has not run yet; once it has, vres holds its one trace.
NoTrace == <<>>

ParamKeys == {<<"a">>, <<"b">>, <<"B">>}
ParamValues == {<<"1">>, <<"2">>}

\* Queries without a signature, of at most n parameters.
ParamSeqs(n) == UNION {[1..k -> ParamKeys \X ParamValues] : k \in 0..n}

\* The position the entry at index i takes among es when es is put in key
\* order, entries of equal key staying in the order of es.
RankOf(es, i) ==
    1 + Cardinality({j \in 1..Len(es) :
            \/ CompareEntries(es[j], es[i]) < 0
            \/ CompareEntries(es[j], es[i]) = 0 /\ j < i})

\* The parameters other than the signature, in key order, as key=value
\* pairs joined with '&'.
CanonicalOf(q) ==
    LET es == SelectSeq(q, LAMBDA e : e[1] # SignatureKey)
        at == [r \in 1..Len(es) |-> CHOOSE i \in 1..Len(es) : RankOf(es, i) = r]
    IN Join([r \in 1..Len(es) |-> es[at[r]][1] \o <<"=">> \o es[at[r]][2]],
            <<"&">>)

\* The signature a caller holding the secret sends with q.
DigestOf(q) == Hmac(SHOPIFY_CLIENT_SECRET, CanonicalOf(q))

\* Characters a forged signature may hold in place of a correct one.
ForgedChars == {"0", "F"}

\* Signatures sent with q: the correct one, the correct one with one
\* character altered, and the empty one.
SignaturesFor(q) ==
    LET d == DigestOf(q)
    IN {d, <<>>}
       \cup {[d EXCEPT ![ic[1]] = ic[2]] :
                 ic \in {x \in (1..Len(d)) \X ForgedChars : d[x[1]] # x[2]}}
       \cup {[i \in 1..Len(d) |->
                 IF \E k \in 1..Len(Lower) : Lower[k] = d[i]
                 THEN Upper[CHOOSE k \in 1..Len(Lower) : Lower[k] = d[i]]
                 ELSE d[i]]}

\* q with entry e put in after its first n entries.
InsertAt(q, n, e) == SubSeq(q, 1, n) \o <<e>> \o SubSeq(q, n + 1, Len(q))

\* The queries of at most n parameters, with no signature or with one.
SignedQueries(n) ==
    ParamSeqs(n)
    \cup UNION {{InsertAt(q, at, <<SignatureKey, sig>>) :
                    at \in 0..Len(q), sig \in SignaturesFor(q)} :
                q \in ParamSeqs(n)}

HandlerIdle ==
    /\ route = "none" /\ path = <<>> /\ pc = "idle" /\ slug = undefined
    /\ mode = "none" /\ fetches = 0 /\ failure = "none"
    /\ fetched = <<>> /\ resp = NoResponse

RenderIdle == rin = <<>> /\ rout = <<>> /\ rprev = <<>>

VerifyIdle == vres = NoTrace /\ vprev = NoTrace /\ vswap = "none"

InitVerify ==
    /\ query \in SignedQueries(MaxParams)
    /\ VerifyIdle
    /\ HandlerIdle
    /\ RenderIdle

\* verifyShopifySignature is applied to the query.
VerifyCall ==
    /\ vres = NoTrace
    /\ vres' = <<VerifyTrace(query)>>
    /\ UNCHANGED <<query, vprev, vswap, handlerVars, renderVars>>

\* Two neighbouring parameters change places and the verifier runs again.
Reorder ==
    /\ vres # NoTrace
    /\ \E i \in 1..(Len(query) - 1) :
         /\ query' = [query EXCEPT ![i] = query[i + 1], ![i + 1] = query[i]]
         /\ vswap' = IF CompareEntries(query[i], query[i + 1]) = 0
                      THEN "tie" ELSE "free"
    /\ vprev' = vres
    /\ vres' = <<VerifyTrace(query')>>
    /\ UNCHANGED <<handlerVars, renderVars>>

NextVerify == VerifyCall \/ Reorder

SpecVerify == InitVerify /\ [][NextVerify]_vars

---------------------------------------------------------------------------
(* The block renderer on its own: bodies drawn from bounded sets,          *)
(* rendered, and rendered again after a block of unknown kind is put in.   *)

Block(type, title, content, items, description, btnText) ==
    [type |-> type, title |-> title, content |-> content, items |-> items,
     description |-> description, btnText |-> btnText]

Wysiwyg(title) ==
    Block("wysiwygBlock", title, <<"rich1">>, <<>>, undefined, undefined)
Faq(title, items) ==
    Block("faqBlock", title, undefined, items, undefined, undefined)
Cta(title, description, btnText) ==
    Block("ctaBlock", title, undefined, <<>>, description, btnText)
QuickAnswer(title) ==
    Block("quickAnswerBlock", title, <<"rich2">>, <<>>, undefined, undefined)
\* A block of a kind the switch does not name.
UnknownBlock ==
    Block("imageBlock", <<"x">>, <<"rich3">>, <<>>, <<"x">>, <<"x">>)

FaqItem(question, answer) == [question |-> question, answer |-> answer]

BlockSamples ==
    { Wysiwyg(<<"w">>),
      Faq(<<"f">>, << <<FaqItem(<<"q">>, <<"r">>)>> >>),
      Faq(<<"g">>, <<>>),
      Cta(<<"c">>, <<"d">>, <<"b">>),
      QuickAnswer(<<"k">>),
      UnknownBlock }

\* Bodies of at most n blocks.
Bodies(n) == UNION {[1..k -> BlockSamples] : k \in 0..n}

InitBody ==
    /\ rin \in {<<>>} \cup {<<b>> : b \in Bodies(MaxBlocks)}
    /\ rout = <<>> /\ rprev = <<>>
    /\ query = <<>>
    /\ VerifyIdle
    /\ HandlerIdle

\* renderBody is applied to the body.
RenderBodyCall ==
    /\ rout = <<>>
    /\ rout' = <<renderBody(rin)>>
    /\ UNCHANGED <<rin, rprev, query, verifyVars, handlerVars>>

\* A block of unknown kind is put into the body and renderBody runs again.
InsertUnknown ==
    /\ rout # <<>> /\ rin # <<>>
    /\ Len(rin[1]) <= MaxBlocks
    /\ \E at \in 0..Len(rin[1]) : rin' = <<InsertAt(rin[1], at, UnknownBlock)>>
    /\ rprev' = rout
    /\ rout' = <<renderBody(rin')>>
    /\ UNCHANGED <<query, verifyVars, handlerVars>>

NextBody == RenderBodyCall \/ InsertUnknown

SpecBody == InitBody /\ [][NextBody]_vars

---------------------------------------------------------------------------
(* The page renderers on their own: one content-store text drawn from a    *)
(* bounded set and put into one text field of a record, which is rendered. *)

TextChars == {"a", "&", "<", ">", "\""}

\* Texts of at most n characters, and the absent text.
Texts(n) == UNION {[1..k -> TextChars] : k \in 0..n} \cup {undefined}

BasePost ==
    [title |-> <<"t">>, body |-> <<>>, mainPhotoUrl |-> <<"u">>,
     mainPhotoAlt |-> undefined, publishedAt |-> <<"2024-01-15">>,
     authors |-> << <<[fullName |-> <<"n">>]>> >>]

\* Posts of the catch-all route with s in one text field.
PostFrames(s) ==
    { [BasePost EXCEPT !.title = s],
      [BasePost EXCEPT !.mainPhotoAlt = s],
      [BasePost EXCEPT !.authors =
           << <<[fullName |-> <<"n">>], [fullName |-> s]>> >>],
      [BasePost EXCEPT !.body = << <<Wysiwyg(s)>> >>],
      [BasePost EXCEPT !.body = << <<QuickAnswer(s)>> >>],
      [BasePost EXCEPT !.body =
           << <<Faq(s, << <<FaqItem(<<"q">>, <<"r">>)>> >>)>> >>],
      [BasePost EXCEPT !.body =
           << <<Faq(<<"f">>, << <<FaqItem(s, <<"r">>)>> >>)>> >>],
      [BasePost EXCEPT !.body =
           << <<Faq(<<"f">>, << <<FaqItem(<<"q">>, <<"r">>), FaqItem(<<"q">>, s)>> >>)>> >>],
      [BasePost EXCEPT !.body = << <<Cta(s, <<"d">>, <<"b">>)>> >>],
      [BasePost EXCEPT !.body = << <<Cta(<<"c">>, s, <<"b">>)>> >>],
      [BasePost EXCEPT !.body = << <<Cta(<<"c">>, <<"d">>, s)>> >>] }

\* Author lists with s as one author's name.
AuthorFrames(s) ==
    { <<[fullName |-> s, photoUrl |-> <<"u">>]>>,
      <<[fullName |-> <<"n">>, photoUrl |-> <<"u">>],
        [fullName |-> s, photoUrl |-> undefined]>> }

BasePrefixPost ==
    [title |-> <<"t">>, body |-> <<"rich1">>, mainImageUrl |-> <<"u">>,
     publishedAt |-> <<"2024-01-15">>, authorName |-> <<"n">>]

\* Posts of the path_prefix route with s in one text field.
PrefixFrames(s) ==
    { [BasePrefixPost EXCEPT !.title = s],
      [BasePrefixPost EXCEPT !.title = s, !.mainImageUrl = undefined,
                             !.body = undefined, !.publishedAt = undefined],
      [BasePrefixPost EXCEPT !.authorName = s] }

PageInputs(n) ==
    UNION {
        {[kind |-> "post", probe |-> s, rec |-> <<f>>] : f \in PostFrames(s)}
        \cup {[kind |-> "authors", probe |-> s, rec |-> <<f>>] : f \in AuthorFrames(s)}
        \cup {[kind |-> "prefixPost", probe |-> s, rec |-> <<f>>] : f \in PrefixFrames(s)}
        : s \in Texts(n)}

InitPage ==
    /\ rin \in PageInputs(MaxTextLen)
    /\ rout = <<>> /\ rprev = <<>>
    /\ query = <<>>
    /\ VerifyIdle
    /\ HandlerIdle

\* The catch-all route renders a post.
RenderPostPage ==
    /\ rout = <<>> /\ rin.kind = "post"
    /\ rout' = <<RenderPost(rin.rec)>>
    /\ UNCHANGED <<rin, rprev, query, verifyVars, handlerVars>>

\* The catch-all route renders the author list.
RenderAuthorsPage ==
    /\ rout = <<>> /\ rin.kind = "authors"
    /\ rout' = <<RenderAuthorList(rin.rec)>>
    /\ UNCHANGED <<rin, rprev, query, verifyVars, handlerVars>>

\* The path_prefix route renders a post.
RenderPrefixPage ==
    /\ rout = <<>> /\ rin.kind = "prefixPost"
    /\ rout' = <<RenderPostPrefix(rin.rec)>>
    /\ UNCHANGED <<rin, rprev, query, verifyVars, handlerVars>>

NextPage == RenderPostPage \/ RenderAuthorsPage \/ RenderPrefixPage

SpecPage == InitPage /\ [][NextPage]_vars

---------------------------------------------------------------------------
(* Route Handler: the content store answers and GET responds.              *)

Author(fullName, photoUrl) == [fullName |-> fullName, photoUrl |-> photoUrl]

\* What the author query may resolve to.
AuthorResults ==
    { <<>>,
      << <<>> >>,
      << <<Author(<<"A", "d", "a">>, <<"u">>), Author(<<"B", "o">>, undefined)>> >>,
      << <<Author(<<"A", "d", "a">>, <<"u">>), Author(undefined, undefined)>> >>,
      << <<Author(<<>>, <<"u">>)>> >> }

\* What the post query of the catch-all route may resolve to.
PostResults ==
    { <<>>,
      <<BasePost>>,
      <<[BasePost EXCEPT !.title = undefined]>>,
      <<[BasePost EXCEPT !.title = <<>>, !.mainPhotoUrl = undefined,
                         !.authors = <<>>, !.publishedAt = undefined]>>,
      <<[BasePost EXCEPT !.body =
             << <<Cta(<<"c">>, <<"d">>, <<"b">>), UnknownBlock, Wysiwyg(<<"<">>)>> >>]>>,
      <<[BasePost EXCEPT !.body = << <<Faq(<<"g">>, <<>>)>> >>]>> }

\* What the post query of the path_prefix route may resolve to.
PrefixPostResults ==
    { <<>>,
      <<BasePrefixPost>>,
      <<[BasePrefixPost EXCEPT !.title = undefined]>>,
      <<[BasePrefixPost EXCEPT !.title = <<>>, !.authorName = undefined]>> }

\* The step that failed when a renderer threw on what the store sent.
FailureOf(r, record) ==
    IF r.ok THEN "none"
    ELSE IF record = <<>> THEN "norecord"
    ELSE "render"

\* fetchAndRenderAuthorList resumes with the store's answer, and GET
\* answers.
Fetch_ReturnsAuthors ==
    /\ pc = "awaitFetch" /\ route = "catchall" /\ mode = "list"
    /\ \E authors \in AuthorResults :
         LET r == RenderAuthorList(authors)
         IN /\ fetched' = authors
            /\ failure' = IF r.ok THEN "none"
                          ELSE IF authors = <<>> THEN "norecord" ELSE "empty"
            /\ resp' = TryResponse(r)
    /\ pc' = "done"
    /\ UNCHANGED <<route, query, path, slug, mode, fetches, verifyVars, renderVars>>

\* fetchAndRenderPost of the catch-all route resumes with the store's
\* answer, and GET answers.
Fetch_ReturnsPost ==
    /\ pc = "awaitFetch" /\ route = "catchall" /\ mode = "single"
    /\ \E post \in PostResults :
         LET r == RenderPost(post)
         IN /\ fetched' = post
            /\ failure' = FailureOf(r, post)
            /\ resp' = TryResponse(r)
    /\ pc' = "done"
    /\ UNCHANGED <<route, query, path, slug, mode, fetches, verifyVars, renderVars>>

\* fetchAndRenderPost of the path_prefix route resumes with the store's
\* answer, and GET answers.
Fetch_ReturnsPrefixPost ==
    /\ pc = "awaitFetch" /\ route = "prefix"
    /\ \E post \in PrefixPostResults :
         LET r == RenderPostPrefix(post)
         IN /\ fetched' = post
            /\ failure' = FailureOf(r, post)
            /\ resp' = TryResponse(r)
    /\ pc' = "done"
    /\ UNCHANGED <<route, query, path, slug, mode, fetches, verifyVars, renderVars>>

---------------------------------------------------------------------------
(* The requests: one inbound GET per behaviour.                            *)

MonArticle == <<"m", "o", "n", "-", "a", "r", "t", "i", "c", "l", "e">>

ShopKey == <<"s", "h", "o", "p">>

\* The parameters the storefront sends besides the signature.
RequestParams ==
    LET shop == <<ShopKey, <<"s", "1">>>>
    IN { <<shop>> }
       \cup { <<shop, <<PathPrefixKey, pp>>>> :
                pp \in {<<>>, Liste, <<"/">> \o Liste, <<"/">> \o MonArticle} }

\* The queries of the requests: unsigned, or signed at either end.
RequestQueries ==
    RequestParams
    \cup UNION {{InsertAt(q, at, <<SignatureKey, sig>>) :
                    at \in {0, Len(q)}, sig \in SignaturesFor(q)} :
                q \in RequestParams}

\* params.path of the catch-all route: undefined at the route's root, the
\* segments otherwise.
RequestPaths ==
    { <<>>, << <<>> >>, << <<Liste>> >>, << <<MonArticle>> >>,
      << <<Liste, MonArticle>> >> }

Init ==
    /\ route \in {"catchall", "prefix"}
    /\ query \in RequestQueries
    /\ path \in IF route = "catchall" THEN RequestPaths ELSE {<<>>}
    /\ pc = "received"
    /\ slug = undefined
    /\ mode = "none"
    /\ fetches = 0
    /\ failure = "none"
    /\ fetched = <<>>
    /\ resp = NoResponse
    /\ VerifyIdle
    /\ RenderIdle

Next ==
    \/ GET_Begin
    \/ GET_ParamsResolved
    \/ GET_ParamsRejected
    \/ GETPrefix_Begin
    \/ Fetch_Throws
    \/ Fetch_ReturnsAuthors
    \/ Fetch_ReturnsPost
    \/ Fetch_ReturnsPrefixPost

Spec == Init /\ [][Next]_vars

---------------------------------------------------------------------------
(* Claims about the verifier, checked under SpecVerify.                    *)

\* The indices of the signature fields of q.
SignatureFields(q) == {i \in 1..Len(q) : q[i][1] = SignatureKey}

\* C5: verifyShopifySignature returns true exactly when the query has a
\* signature field whose value is, character for character, the lower-case
\* hex digest under the secret of the other parameters in key order joined
\* as key=value pairs with '&'.  So a correct signature with one character
\* altered (or with its letters in upper case) is refused, and a query
\* without a signature field is refused with a plain false.
C5_VerifyIffSignatureIsDigest ==
    vres # NoTrace =>
        /\ vres[1].result \in BOOLEAN
        /\ vres[1].result =
               (\E i \in SignatureFields(query) : query[i][2] = DigestOf(query))

\* Two parameters of q stand out of key order.
OutOfKeyOrder(q) ==
    \E i, j \in 1..Len(q) :
        /\ i < j
        /\ q[i][1] # SignatureKey /\ q[j][1] # SignatureKey
        /\ CompareEntries(q[i], q[j]) > 0

\* C5 witness: a query accepted although its parameters arrived out of key
\* order, the signature field standing before other parameters.
C5_Witness ==
    /\ vres # NoTrace
    /\ vres[1].result = TRUE
    /\ OutOfKeyOrder(query)
    /\ 1 \in SignatureFields(query)

\* C6 as stated: whichever two neighbouring parameters change places, also
\* two that share a key and differ in value, the verifier hashes the same
\* canonical string and returns the same result.
C6_AnyReorderSameTrace == vswap # "none" => vres = vprev

\* C6 amended: when the two parameters that change places have keys that do
\* not compare equal, the verifier hashes the same canonical string and
\* returns the same result.
C6_ReorderAcrossKeysSameTrace == vswap = "free" => vres = vprev

\* Some key of q occurs twice with different values.
RepeatedKey(q) ==
    \E i, j \in 1..Len(q) : i # j /\ q[i][1] = q[j][1] /\ q[i][2] # q[j][2]

\* C6 witness: an accepted query with a repeated key, verified again after
\* two parameters of different keys changed places.
C6_Witness ==
    /\ vswap = "free"
    /\ vres[1].result = TRUE
    /\ RepeatedKey(query)

---------------------------------------------------------------------------
(* Claims about the renderers, checked under SpecBody and SpecPage.        *)

\* What one character of a content-store text must be written as.
EntityOf(c) ==
    CASE c = "&" -> <<"&", "a", "m", "p", ";">>
      [] c = "<" -> <<"&", "l", "t", ";">>
      [] c = ">" -> <<"&", "g", "t", ";">>
      [] c = "\"" -> <<"&", "q", "u", "o", "t", ";">>
      [] OTHER -> <<c>>

\* What a content-store text must be written as; nothing for an absent one.
Escaped(s) ==
    IF s = undefined THEN <<>>
    ELSE Concat([i \in 1..Len(s) |-> EntityOf(s[i])])

\* a occurs in b as a run of neighbouring elements.
Infix(a, b) ==
    \E i \in 0..(Len(b) - Len(a)) : SubSeq(b, i + 1, i + Len(a)) = a

KnownKinds == {"wysiwygBlock", "faqBlock", "ctaBlock", "quickAnswerBlock"}

\* The tokens that close a section heading.
HeadingEnds == {"</h2>", "</h2><p>", "</h2></section>"}

RECURSIVE SectionTitles(_)
\* The headings of the sections of a body's markup, in the order written.
SectionTitles(html) ==
    IF html = <<>> THEN <<>>
    ELSE IF html[1] = "<section><h2>"
    THEN LET rest == Tail(html)
             n == CHOOSE k \in 1..Len(rest) :
                      /\ rest[k] \in HeadingEnds
                      /\ \A j \in 1..(k - 1) : rest[j] \notin HeadingEnds
         IN <<SubSeq(rest, 1, n - 1)>> \o SectionTitles(SubSeq(rest, n + 1, Len(rest)))
    ELSE SectionTitles(Tail(html))

\* No block of the body makes renderBody throw.
NoBlockThrows(body) ==
    \A i \in 1..Len(body) : ~(body[i].type = "faqBlock" /\ body[i].items = <<>>)

\* C7: renderBody writes one section per block of a known kind, in the
\* order of the input; a block of unknown kind raises no error and writes
\* nothing, so the markup of a body is the same after a block of unknown
\* kind is put in at any position.
C7_UnknownBlockContributesNothing ==
    rout # <<>> =>
        /\ rprev # <<>> => rout = rprev
        /\ (rin # <<>> /\ NoBlockThrows(rin[1])) =>
               /\ rout[1].ok
               /\ LET known == SelectSeq(rin[1], LAMBDA b : b.type \in KnownKinds)
                  IN SectionTitles(rout[1].html) =
                         [i \in 1..Len(known) |-> Escaped(known[i].title)]

\* C7 witness: a body rendered without error after a block of unknown kind
\* was put between two blocks of known kinds.
C7_Witness ==
    /\ rprev # <<>> /\ rout # <<>> /\ rin # <<>>
    /\ rout[1].ok
    /\ Len(rin[1]) = 3
    /\ rin[1][1].type = "ctaBlock"
    /\ rin[1][2].type = "imageBlock"
    /\ rin[1][3].type = "faqBlock"

\* Every '&' of the markup starts one of the four entities.
AmpersandsStartEntities(html) ==
    \A i \in 1..Len(html) :
        html[i] = "&" =>
            \E e \in {Amp, Lt, Gt, Quot} :
                /\ i + Len(e) - 1 <= Len(html)
                /\ SubSeq(html, i, i + Len(e) - 1) = e

\* C8: in a rendered document no '<', '>' or '"' of a content-store text
\* field is left raw, every '&' starts an entity, and the text put into the
\* field (post title, author name, block title, FAQ question or answer, CTA
\* description or button label, image alt text) is there written with
\* &amp; &lt; &gt; &quot; in place of & < > ".
C8_TextFieldsAreEscaped ==
    (rout # <<>> /\ rout[1].ok) =>
        /\ \A i \in 1..Len(rout[1].html) : rout[1].html[i] \notin {"<", ">", "\""}
        /\ AmpersandsStartEntities(rout[1].html)
        /\ Infix(Escaped(rin.probe), rout[1].html)

\* C8 witness: a post rendered whose CTA button label holds '<' and '&'.
C8_Witness ==
    /\ rout # <<>> /\ rout[1].ok
    /\ rin.kind = "post"
    /\ rin.probe = <<"<", "&">>
    /\ rin.rec[1].body # <<>>
    /\ rin.rec[1].body[1][1].type = "ctaBlock"
    /\ rin.rec[1].body[1][1].btnText = rin.probe
    /\ Infix(Lt \o Amp \o <<"</strong></p></section>">>, rout[1].html)

---------------------------------------------------------------------------
(* Claims about the route handlers, checked under Spec.                    *)

\* The signature check fails on q: no signature field, or none whose value
\* is the digest of the other parameters.
SignatureFails(q) ==
    ~\E i \in SignatureFields(q) : q[i][2] = DigestOf(q)

\* C1: a request whose signature check fails is answered 401 with the plain
\* text 'Unauthorized' and nothing else: it never waits for the path or the
\* store, no renderer is chosen for it, no query is sent, and its response
\* is never a 200 or a 404.
C1_BadSignatureIsUnauthorized ==
    SignatureFails(query) =>
        /\ pc \in {"received", "done"}
        /\ mode = "none" /\ fetches = 0 /\ fetched = <<>>
        /\ pc = "received" => resp = NoResponse
        /\ pc = "done" =>
              /\ resp.status = 401
              /\ resp.body = <<"Unauthorized">>
              /\ resp.contentType = "text/plain;charset=UTF-8"

\* C1 witness: the catch-all route has answered a request that carries a
\* signature, which is not the digest of its parameters.
C1_Witness ==
    /\ pc = "done" /\ route = "catchall"
    /\ SignatureFields(query) # {}
    /\ ~Falsy(Get(query, SignatureKey))
    /\ SignatureFails(query)
    /\ resp.status = 401

\* C2 as stated: once the signature check has passed, whichever later step
\* fails (resolving the path parameter, the query, a missing record, an
\* empty author list, rendering), the response is 404 with the fixed body
\* 'Content not found' and nothing escapes the handler.
C2_LaterFailureIsNotFound ==
    failure # "none" =>
        /\ resp.status = 404
        /\ resp.body = <<"Content not found">>

\* C3: a response is 200 only when the signature check passed and the
\* fetch, the rendering and the assembly all went through; it then carries
\* Content-Type application/liquid and Cache-Control public, max-age=300,
\* and its body is the whole document, from the doctype to the closing
\* html tag, that the renderer returned for the record fetched.
C3_OkOnlyWhenAllSucceeded ==
    resp.status = 200 =>
        /\ ~SignatureFails(query)
        /\ pc = "done" /\ failure = "none" /\ fetches = 1 /\ fetched # <<>>
        /\ resp.contentType = "application/liquid"
        /\ resp.cacheControl = "public, max-age=300"
        /\ LET r == IF route = "prefix" THEN RenderPostPrefix(fetched)
                    ELSE IF mode = "list" THEN RenderAuthorList(fetched)
                    ELSE RenderPost(fetched)
           IN r.ok /\ resp.body = r.html
        /\ resp.body[1] \in
              {"<!DOCTYPE html><html lang='fr'><head><title>",
               "<!DOCTYPE html><html lang='fr'><head><title>Nos auteurs</title><style>authors</style></head><body><h1>Nos auteurs</h1><div class='authors-grid'>"}
        /\ resp.body[Len(resp.body)] \in
              {"</div></article></body></html>", "</div></body></html>"}

\* C3 witness: a 200 whose body is a post with three blocks, one of them of
\* unknown kind.
C3_Witness ==
    /\ resp.status = 200 /\ route = "catchall" /\ mode = "single"
    /\ fetched[1].body # <<>>
    /\ Len(fetched[1].body[1]) = 3
    /\ Infix(<<"</strong></p></section>", "<section><h2>">>, resp.body)

\* C4 as stated: on both routes, a request with a valid signature is
\* rendered in list mode (the author query) exactly when its path parameter
\* is empty or 'liste', and in single-item mode (the post query) otherwise.
C4_ListModeIffEmptyOrListe ==
    mode # "none" => (mode = "list" <=> (slug = <<>> \/ slug = Liste))

\* C9 as stated: no 200 is produced from a post without a non-empty title,
\* nor from an author list with an author without a non-empty fullName.
C9_RenderedRecordsHaveTitles ==
    resp.status = 200 =>
        IF mode = "list"
        THEN \A i \in 1..Len(fetched[1]) : ~Falsy(fetched[1][i].fullName)
        ELSE ~Falsy(fetched[1].title)

\* C10 as stated: a request sends exactly one content-store query when its
\* signature check passed and none when it failed; no second query follows
\* a failed one; and a request that has its response takes no further step.
C10_OneQueryThenStop ==
    [][ /\ pc # "done"
        /\ fetches' <= 1
        /\ pc' = "done" =>
              fetches' = IF SignatureFails(query) THEN 0 ELSE 1 ]_vars

====
